---- MODULE Spec2Model ----
(***************************************************************************)
(* Indicator data aggregation layer of the Global Health Dashboard         *)
(* (src/app.py): the three country-directory lookups, the directory        *)
(* resolution in main, fetch_world_bank_data, the merge inside             *)
(* create_scatter_comparison, and the two caches above the network         *)
(* (st.cache_data per function, requests_cache per URL).                   *)
(*                                                                         *)
(* Representation.                                                         *)
(*   - a Python dict (insertion ordered) is a sequence of <<key, value>>   *)
(*     pairs with distinct keys;                                           *)
(*   - a DataFrame is the sequence of its rows, the empty DataFrame <<>>;  *)
(*   - a string that the code parses (a date, a textual value) is the      *)
(*     sequence of its characters; every other string is a TLA+ string;    *)
(*   - a float is an integer number of tenths (78.8 is 788);               *)
(*   - time is in seconds.                                                 *)
(***************************************************************************)
EXTENDS Integers, Sequences, FiniteSets, TLC

VARIABLES now, stCache, httpCache, lastCall, available_countries, data, probe

vars == <<now, stCache, httpCache, lastCall, available_countries, data, probe>>

(***************************************************************************)
(* Bounds of the model.                                                    *)
(***************************************************************************)
MaxTicks == 2
TickStep == 43200
MaxItems == 2
MaxEntries == 2
MaxRows == 2

(***************************************************************************)
(* Program constants.                                                      *)
(***************************************************************************)
None == "None"
TTL == 86400
ExpireAfterHours == 24
\* A response cache that keeps its entries twice as long.
HTTP_EXPIRE_LONGER == ExpireAfterHours * 7200

HTTP_EXPIRE == ExpireAfterHours * 3600
HTTP_OK == 200
PER_PAGE == 1000

WORLD_BANK_INDICATORS ==
  << <<"Life Expectancy at Birth", "SP.DYN.LE00.IN">>,
     <<"Under-5 Mortality Rate (per 1000)", "SH.DYN.MORT">>,
     <<"Infant Mortality Rate (per 1000)", "SP.DYN.IMRT.IN">>,
     <<"Immunization, DPT (% of children ages 12-23 months)", "SH.IMM.IDPT">>,
     <<"Immunization, Measles (% of children ages 12-23 months)", "SH.IMM.MEAS">>,
     <<"GDP per Capita (current US$)", "NY.GDP.PCAP.CD">>,
     <<"Health Expenditure (% of GDP)", "SH.XPD.CHEX.GD.ZS">>,
     <<"Physicians (per 1,000 people)", "SH.MED.PHYS.ZS">>,
     <<"Hospital Beds (per 1,000 people)", "SH.MED.BEDS.ZS">> >>

REGIONS ==
  << <<"All Regions", None>>,
     <<"East Asia & Pacific", "EAS">>,
     <<"Europe & Central Asia", "ECS">>,
     <<"Latin America & Caribbean", "LCN">>,
     <<"Middle East & North Africa", "MEA">>,
     <<"North America", "NAC">>,
     <<"South Asia", "SAS">>,
     <<"Sub-Saharan Africa", "SSF">> >>

INCOME_GROUPS ==
  << <<"All Income Levels", None>>,
     <<"High Income", "HIC">>,
     <<"Upper Middle Income", "UMC">>,
     <<"Lower Middle Income", "LMC">>,
     <<"Low Income", "LIC">> >>

SAMPLE_COUNTRIES ==
  << <<"United States", "USA">>, <<"United Kingdom", "GBR">>,
     <<"Germany", "DEU">>, <<"France", "FRA">>, <<"China", "CHN">>,
     <<"India", "IND">>, <<"Brazil", "BRA">>, <<"Japan", "JPN">>,
     <<"Nigeria", "NGA">>, <<"South Africa", "ZAF">>, <<"Kenya", "KEN">>,
     <<"Pakistan", "PAK">>, <<"Indonesia", "IDN">>, <<"Mexico", "MEX">>,
     <<"Russia", "RUS">>, <<"Canada", "CAN">>, <<"Australia", "AUS">>,
     <<"Egypt", "EGY">>, <<"Bangladesh", "BGD">>, <<"Ethiopia", "ETH">> >>

(***************************************************************************)
(* Python dicts as sequences of pairs.                                     *)
(***************************************************************************)
Range(s) == {s[i] : i \in 1..Len(s)}

DictKeys(d) == {d[i][1] : i \in 1..Len(d)}

DictLookup(d, k) == d[CHOOSE i \in 1..Len(d) : d[i][1] = k][2]

\* d[k] = v: a key already present keeps its place and takes the new value.
DictSet(d, k, v) ==
  IF k \in DictKeys(d)
  THEN [i \in 1..Len(d) |-> IF d[i][1] = k THEN <<k, v>> ELSE d[i]]
  ELSE Append(d, <<k, v>>)

\* The truth value of a code of REGIONS or INCOME_GROUPS: None is false.
CodeSet(code) == code # None

\* The truth value of a dict or a list: the empty one is false.
NonEmpty(d) == d # <<>>

RECURSIVE BoundedSeq(_, _)
BoundedSeq(S, n) ==
  IF n = 0 THEN {<<>>}
  ELSE LET shorter == BoundedSeq(S, n - 1)
       IN  shorter \cup {Append(s, x) : s \in {t \in shorter : Len(t) = n - 1}, x \in S}

(***************************************************************************)
(* int() and float() on the values a JSON item carries.                    *)
(***************************************************************************)
NoExc == "none"

Digits == <<"0", "1", "2", "3", "4", "5", "6", "7", "8", "9">>

IsDigit(c) == \E d \in 1..10 : Digits[d] = c

DigitVal(c) == (CHOOSE d \in 1..10 : Digits[d] = c) - 1

AllDigits(s) == \A i \in 1..Len(s) : IsDigit(s[i])

RECURSIVE DecimalValue(_)
DecimalValue(s) ==
  IF s = <<>> THEN 0
  ELSE 10 * DecimalValue(SubSeq(s, 1, Len(s) - 1)) + DigitVal(s[Len(s)])

\* int(text): a non-empty run of decimal digits, anything else is a ValueError.
int(s) ==
  IF Len(s) > 0 /\ AllDigits(s)
  THEN [exc |-> NoExc, val |-> DecimalValue(s)]
  ELSE [exc |-> "ValueError", val |-> 0]

\* float(text), in tenths: digits, or digits "." digit.
FloatOfText(s) ==
  LET dots == {i \in 1..Len(s) : s[i] = "."}
  IN  IF dots = {}
      THEN IF Len(s) > 0 /\ AllDigits(s)
           THEN [exc |-> NoExc, val |-> 10 * DecimalValue(s)]
           ELSE [exc |-> "ValueError", val |-> 0]
      ELSE LET p == CHOOSE i \in dots : TRUE
               ip == SubSeq(s, 1, p - 1)
               fp == SubSeq(s, p + 1, Len(s))
           IN  IF Cardinality(dots) = 1 /\ AllDigits(ip) /\ AllDigits(fp)
                  /\ Len(ip) + Len(fp) > 0 /\ Len(fp) <= 1
               THEN [exc |-> NoExc, val |-> 10 * DecimalValue(ip) + DecimalValue(fp)]
               ELSE [exc |-> "ValueError", val |-> 0]

\* float(v) of a JSON value: a number keeps its value, a text is parsed.
float(v) ==
  IF v.kind = "num" THEN [exc |-> NoExc, val |-> v.num]
  ELSE IF v.kind = "str" THEN FloatOfText(v.str)
  ELSE [exc |-> "TypeError", val |-> 0]

(***************************************************************************)
(* The upstream API.  A response is what requests.get hands back: an       *)
(* exception, or a status and the JSON array [metadata, data-or-null].     *)
(***************************************************************************)
JsonNull == [kind |-> "null", num |-> 0, str |-> <<>>]
JsonNum(n) == [kind |-> "num", num |-> n, str |-> <<>>]
JsonStr(s) == [kind |-> "str", num |-> 0, str |-> s]

Raises(e) == [exc |-> e, status_code |-> 0, len |-> 0, isNull |-> TRUE, items |-> <<>>, entries |-> <<>>]
Status(code) == [exc |-> NoExc, status_code |-> code, len |-> 1, isNull |-> TRUE, items |-> <<>>, entries |-> <<>>]
ShortEnvelope == [exc |-> NoExc, status_code |-> HTTP_OK, len |-> 1, isNull |-> TRUE, items |-> <<>>, entries |-> <<>>]
NullData == [exc |-> NoExc, status_code |-> HTTP_OK, len |-> 2, isNull |-> TRUE, items |-> <<>>, entries |-> <<>>]
ItemData(items) == [exc |-> NoExc, status_code |-> HTTP_OK, len |-> 2, isNull |-> FALSE, items |-> items, entries |-> <<>>]
EntryData(entries) == [exc |-> NoExc, status_code |-> HTTP_OK, len |-> 2, isNull |-> FALSE, items |-> <<>>, entries |-> entries]

\* The ways a call fails before any data element is seen.
Failures == {Raises("Timeout"), Raises("ConnectionError"), Status(500), Status(404), ShortEnvelope}

(***************************************************************************)
(* fetch_world_bank_data.                                                  *)
(*                                                                         *)
(* An item of the data element is a JSON object: keys is the set of keys   *)
(* it has, the other fields are their values (country stands for           *)
(* item['country']['value']).                                              *)
(***************************************************************************)
Item(c, iso, date, v) ==
  [keys |-> {"country", "countryiso3code", "date", "value"},
   country |-> c, countryiso3code |-> iso, date |-> date, value |-> v]

Without(item, key) == [item EXCEPT !.keys = @ \ {key}]

\* SeriesRequest with no date parameter: the upstream answers for every year.
SeriesRequestUndated(indicator_code, countries, start_year, end_year) ==
  [path |-> "indicator", country_codes |-> countries, indicator |-> indicator_code,
   region |-> "", incomeLevel |-> "", format |-> "json",
   date |-> <<0, 9999>>, per_page |-> PER_PAGE]

\* The request of lines 132-138: the URL path holds ";".join(countries) (here
\* the list itself, which the joined text determines) and the indicator code,
\* the parameters format, date and per_page.
SeriesRequest(indicator_code, countries, start_year, end_year) ==
  [path |-> "indicator", country_codes |-> countries, indicator |-> indicator_code,
   region |-> "", incomeLevel |-> "", format |-> "json",
   date |-> <<start_year, end_year>>, per_page |-> PER_PAGE]

\* AppendRecord with a try of its own around the item: an item that cannot be
\* read is skipped.
AppendRecordSkipping(acc, item) ==
  IF "value" \notin item.keys THEN acc
  ELSE IF item.value.kind = "null" THEN acc
  ELSE IF {"country", "countryiso3code", "date"} \subseteq item.keys
          /\ int(item.date).exc = NoExc /\ float(item.value).exc = NoExc
       THEN [acc EXCEPT !.records =
               Append(@, [country |-> item.country,
                          country_code |-> item.countryiso3code,
                          year |-> int(item.date).val,
                          value |-> float(item.value).val])]
       ELSE acc

\* One turn of the loop of lines 146-153: acc is [exc, records].  The dict
\* literal evaluates its values in the order written.
AppendRecord(acc, item) ==
  IF acc.exc # NoExc THEN acc
  ELSE IF "value" \notin item.keys THEN [acc EXCEPT !.exc = "KeyError"]
  ELSE IF item.value.kind = "null" THEN acc
  ELSE IF "country" \notin item.keys THEN [acc EXCEPT !.exc = "KeyError"]
  ELSE IF "countryiso3code" \notin item.keys THEN [acc EXCEPT !.exc = "KeyError"]
  ELSE IF "date" \notin item.keys THEN [acc EXCEPT !.exc = "KeyError"]
  ELSE IF int(item.date).exc # NoExc THEN [acc EXCEPT !.exc = int(item.date).exc]
  ELSE IF float(item.value).exc # NoExc THEN [acc EXCEPT !.exc = float(item.value).exc]
  ELSE [acc EXCEPT !.records =
          Append(@, [country |-> item.country,
                     country_code |-> item.countryiso3code,
                     year |-> int(item.date).val,
                     value |-> float(item.value).val])]

RECURSIVE BuildRecords(_)
BuildRecords(items) ==
  IF items = <<>> THEN [exc |-> NoExc, records |-> <<>>]
  ELSE AppendRecord(BuildRecords(SubSeq(items, 1, Len(items) - 1)), items[Len(items)])

\* The try block of lines 140-154: [exc, returned, value]; returned is FALSE
\* when control falls through to line 158.
SeriesTry(response) ==
  IF response.exc # NoExc
  THEN [exc |-> response.exc, returned |-> FALSE, value |-> <<>>]
  ELSE IF response.status_code = HTTP_OK
       THEN IF response.len > 1 /\ ~response.isNull /\ NonEmpty(response.items)
            THEN LET built == BuildRecords(response.items)
                 IN  IF built.exc # NoExc
                     THEN [exc |-> built.exc, returned |-> FALSE, value |-> <<>>]
                     ELSE [exc |-> NoExc, returned |-> TRUE, value |-> built.records]
            ELSE [exc |-> NoExc, returned |-> FALSE, value |-> <<>>]
       ELSE [exc |-> NoExc, returned |-> FALSE, value |-> <<>>]

\* A handler for the parse errors only.
ExceptParseErrors(e) == e \in {"KeyError", "ValueError", "TypeError"}

\* "except Exception": every exception the try block can see is one.
ExceptException(e) == e \in {"Timeout", "ConnectionError", "KeyError", "ValueError", "TypeError", "AttributeError", "IndexError"}

\* The body of fetch_world_bank_data on the response its request got:
\* [raised, value], raised the exception that leaves the function.
fetch_world_bank_data(response) ==
  LET t == SeriesTry(response)
  IN  IF t.exc # NoExc
      THEN IF ExceptException(t.exc)
           THEN [raised |-> NoExc, value |-> <<>>]
           ELSE [raised |-> t.exc, value |-> <<>>]
      ELSE IF t.returned THEN [raised |-> NoExc, value |-> t.value]
           ELSE [raised |-> NoExc, value |-> <<>>]

(***************************************************************************)
(* The upstream's answer to a series request: of the observations it       *)
(* holds, those of the countries in the path whose period lies in the      *)
(* date range, at most per_page of them.                                   *)
(***************************************************************************)
PeriodYear(date) == DecimalValue(SubSeq(date, 1, 4))

Matches(request, item) ==
  /\ item.countryiso3code \in Range(request.country_codes)
  /\ request.date[1] <= PeriodYear(item.date)
  /\ PeriodYear(item.date) <= request.date[2]

FirstPage(request, items) ==
  IF Len(items) <= request.per_page THEN items ELSE SubSeq(items, 1, request.per_page)

SeriesAnswers(request, observations, failures) ==
  LET found == FirstPage(request, SelectSeq(observations, LAMBDA item : Matches(request, item)))
  IN  failures \cup {NullData, ItemData(found)}

(***************************************************************************)
(* The country lookups.                                                    *)
(*                                                                         *)
(* An entry of a country list is a JSON object: name, id, region (the      *)
(* region's id and its value) and incomeLevel (its id).                    *)
(***************************************************************************)
Entry(name, id, regionId, regionValue, incomeId) ==
  [keys |-> {"name", "id", "region"}, name |-> name, id |-> id,
   regionId |-> regionId, region |-> regionValue, incomeLevel |-> incomeId]

\* Python orders strings by code point: the names of the model, in that order.
NameOrder == <<"China", "East Asia & Pacific", "Germany", "Kosovo", "Switzerland">>

NameRank(name) == CHOOSE i \in 1..Len(NameOrder) : NameOrder[i] = name

\* The pair p put in its place in a sequence of pairs ordered by key.
InsertPair(sortedPairs, p) ==
  LET before == SelectSeq(sortedPairs, LAMBDA q : NameRank(q[1]) <= NameRank(p[1]))
      after == SelectSeq(sortedPairs, LAMBDA q : NameRank(q[1]) > NameRank(p[1]))
  IN  before \o <<p>> \o after

\* sorted(countries.items()): the keys of a dict are distinct.
RECURSIVE sorted(_)
sorted(pairs) ==
  IF pairs = <<>> THEN <<>>
  ELSE InsertPair(sorted(SubSeq(pairs, 1, Len(pairs) - 1)), pairs[Len(pairs)])

IsSortedByName(d) == \A i, j \in 1..Len(d) : i < j => NameRank(d[i][1]) < NameRank(d[j][1])

CountriesRequest(regionCode, incomeCode, perPage) ==
  [path |-> "country", country_codes |-> <<>>, indicator |-> "",
   region |-> regionCode, incomeLevel |-> incomeCode, format |-> "json",
   date |-> <<0, 0>>, per_page |-> perPage]

\* Lines 120-122, one turn: the aggregates are left out.  [exc, countries]
KeepCountry(acc, country) ==
  IF acc.exc # NoExc THEN acc
  ELSE IF ("region" \notin country.keys) \/ country.region # "Aggregates"
       THEN IF "id" \notin country.keys \/ "name" \notin country.keys
            THEN [acc EXCEPT !.exc = "KeyError"]
            ELSE [acc EXCEPT !.countries = DictSet(@, country.name, country.id)]
       ELSE acc

RECURSIVE KeepCountries(_)
KeepCountries(entries) ==
  IF entries = <<>> THEN [exc |-> NoExc, countries |-> <<>>]
  ELSE KeepCountry(KeepCountries(SubSeq(entries, 1, Len(entries) - 1)), entries[Len(entries)])

\* Lines 170 and 185, one turn of the comprehension: every entry is taken.
TakeCountry(acc, c) ==
  IF acc.exc # NoExc THEN acc
  ELSE IF "name" \notin c.keys \/ "id" \notin c.keys
       THEN [acc EXCEPT !.exc = "KeyError"]
       ELSE [acc EXCEPT !.countries = DictSet(@, c.name, c.id)]

RECURSIVE TakeCountries(_)
TakeCountries(entries) ==
  IF entries = <<>> THEN [exc |-> NoExc, countries |-> <<>>]
  ELSE TakeCountry(TakeCountries(SubSeq(entries, 1, Len(entries) - 1)), entries[Len(entries)])

\* The try block of lines 114-123.
AllCountriesTry(response) ==
  IF response.exc # NoExc
  THEN [exc |-> response.exc, returned |-> FALSE, value |-> <<>>]
  ELSE IF response.status_code = HTTP_OK /\ response.len > 1
       THEN IF response.isNull
            THEN [exc |-> "TypeError", returned |-> FALSE, value |-> <<>>]
            ELSE LET kept == KeepCountries(response.entries)
                 IN  IF kept.exc # NoExc
                     THEN [exc |-> kept.exc, returned |-> FALSE, value |-> <<>>]
                     ELSE [exc |-> NoExc, returned |-> TRUE, value |-> sorted(kept.countries)]
       ELSE [exc |-> NoExc, returned |-> FALSE, value |-> <<>>]

\* The body of fetch_all_countries on the response its request got.
fetch_all_countries(response) ==
  LET t == AllCountriesTry(response)
  IN  IF t.exc # NoExc
      THEN IF ExceptException(t.exc)
           THEN [raised |-> NoExc, value |-> SAMPLE_COUNTRIES]
           ELSE [raised |-> t.exc, value |-> <<>>]
      ELSE IF t.returned THEN [raised |-> NoExc, value |-> t.value]
           ELSE [raised |-> NoExc, value |-> SAMPLE_COUNTRIES]

\* The try block of lines 165-170, and of lines 180-185.
ScopedCountriesTry(response) ==
  IF response.exc # NoExc
  THEN [exc |-> response.exc, returned |-> FALSE, value |-> <<>>]
  ELSE IF response.status_code = HTTP_OK /\ response.len > 1
       THEN IF response.isNull
            THEN [exc |-> "TypeError", returned |-> FALSE, value |-> <<>>]
            ELSE LET taken == TakeCountries(response.entries)
                 IN  IF taken.exc # NoExc
                     THEN [exc |-> taken.exc, returned |-> FALSE, value |-> <<>>]
                     ELSE [exc |-> NoExc, returned |-> TRUE, value |-> taken.countries]
       ELSE [exc |-> NoExc, returned |-> FALSE, value |-> <<>>]

\* A bare "except:" catches everything.
BareExcept(e) == TRUE

\* The body of fetch_countries_by_region on the response its request got.
fetch_countries_by_region(response) ==
  LET t == ScopedCountriesTry(response)
  IN  IF t.exc # NoExc
      THEN IF BareExcept(t.exc)
           THEN [raised |-> NoExc, value |-> <<>>]
           ELSE [raised |-> t.exc, value |-> <<>>]
      ELSE IF t.returned THEN [raised |-> NoExc, value |-> t.value]
           ELSE [raised |-> NoExc, value |-> <<>>]

\* The body of fetch_countries_by_income on the response its request got.
fetch_countries_by_income(response) ==
  LET t == ScopedCountriesTry(response)
  IN  IF t.exc # NoExc
      THEN IF BareExcept(t.exc)
           THEN [raised |-> NoExc, value |-> <<>>]
           ELSE [raised |-> t.exc, value |-> <<>>]
      ELSE IF t.returned THEN [raised |-> NoExc, value |-> t.value]
           ELSE [raised |-> NoExc, value |-> <<>>]

(***************************************************************************)
(* The upstream's answer to a country request: of the entries it lists,    *)
(* in its own order, those of the region or income level asked for (all    *)
(* of them when neither is), at most per_page of them.                     *)
(***************************************************************************)
InScope(request, entry) ==
  /\ request.region # "" => entry.regionId = request.region
  /\ request.incomeLevel # "" => entry.incomeLevel = request.incomeLevel

CountryAnswers(request, listing, failures) ==
  LET found == FirstPage(request, SelectSeq(listing, LAMBDA entry : InScope(request, entry)))
  IN  failures \cup {NullData, EntryData(found)}

(***************************************************************************)
(* create_scatter_comparison: the join of two tables at a year.            *)
(***************************************************************************)
Row(c, iso, y, v) == [country |-> c, country_code |-> iso, year |-> y, value |-> v]

\* df[df['year'] == year][['country', 'value']], the value column renamed.
AtYear(df, year) ==
  LET rows == SelectSeq(df, LAMBDA r : r.year = year)
  IN  [i \in 1..Len(rows) |-> <<rows[i].country, rows[i].value>>]

\* The rows of data2 that pair with one row of data1, in data2's order.
Pairings(left, data2) ==
  LET right == SelectSeq(data2, LAMBDA r : r[1] = left[1])
  IN  [i \in 1..Len(right) |-> [country |-> left[1], x |-> left[2], y |-> right[i][2]]]

\* pd.merge(data1, data2, on='country'): the inner join, in the order of data1.
RECURSIVE merge(_, _)
merge(data1, data2) ==
  IF data1 = <<>> THEN <<>>
  ELSE merge(SubSeq(data1, 1, Len(data1) - 1), data2) \o Pairings(data1[Len(data1)], data2)

\* create_scatter_comparison with the second table not cut to the year.
ScatterAnyYear(df1, df2, year) ==
  IF df1 = <<>> \/ df2 = <<>>
  THEN [fig |-> FALSE, merged |-> <<>>]
  ELSE LET merged == merge(AtYear(df1, year),
                           [i \in 1..Len(df2) |-> <<df2[i].country, df2[i].value>>])
       IN  [fig |-> merged # <<>>, merged |-> merged]

\* Lines 248-257: [fig, merged]; fig is FALSE where the function returns None.
create_scatter_comparison(df1, df2, year) ==
  IF df1 = <<>> \/ df2 = <<>>
  THEN [fig |-> FALSE, merged |-> <<>>]
  ELSE LET merged == merge(AtYear(df1, year), AtYear(df2, year))
       IN  [fig |-> merged # <<>>, merged |-> merged]

(***************************************************************************)
(* The inputs of the model.                                                *)
(***************************************************************************)
Y2014 == <<"2", "0", "1", "4">>
Y2015 == <<"2", "0", "1", "5">>
Y2016 == <<"2", "0", "1", "6">>
Y2017 == <<"2", "0", "1", "7">>
Y2016Q1 == <<"2", "0", "1", "6", "Q", "1">>

\* Life expectancy of the United States and India, 2015-2017, India's 2017 null.
LifeExpectancy ==
  << Item("United States", "USA", Y2015, JsonNum(790)),
     Item("United States", "USA", Y2016, JsonNum(788)),
     Item("United States", "USA", Y2017, JsonNum(785)),
     Item("India", "IND", Y2015, JsonNum(680)),
     Item("India", "IND", Y2016, JsonNum(683)),
     Item("India", "IND", Y2017, JsonNull) >>

Observations ==
  { Item("United States", "USA", Y2016, JsonNum(788)),
    Item("India", "IND", Y2017, JsonNull),
    Item("India", "IND", Y2016, JsonNum(683)),
    Item("United States", "USA", Y2014, JsonNum(787)),
    Item("United States", "USA", Y2016Q1, JsonNum(788)),
    Item("United States", "USA", Y2016Q1, JsonNull),
    Item("India", "IND", Y2016, JsonStr(<<"n", "/", "a">>)),
    Item("India", "IND", Y2015, JsonStr(<<"6", "8", ".", "0">>)),
    Without(Item("India", "IND", Y2016, JsonNum(683)), "value") }

\* A later revision of the same series.
LifeExpectancyRevised ==
  << Item("United States", "USA", Y2016, JsonNum(789)),
     Item("India", "IND", Y2017, JsonNum(687)) >>

YearRanges == {<<2015, 2017>>, <<2016, 2016>>}

CountryLists == {<<"USA", "IND">>, <<"IND", "USA">>, <<"USA">>}

Listing ==
  { Entry("Switzerland", "CHE", "ECS", "Europe & Central Asia", "HIC"),
    Entry("Germany", "DEU", "ECS", "Europe & Central Asia", "HIC"),
    Entry("China", "CHN", "EAS", "East Asia & Pacific", "UMC"),
    Entry("East Asia & Pacific", "EAS", "NA", "Aggregates", "NA"),
    Without(Entry("Kosovo", "XKX", "ECS", "Europe & Central Asia", "UMC"), "name") }

Rows ==
  { Row("United States", "USA", 2016, 788),
    Row("United States", "USA", 2016, 570000),
    Row("United States", "USA", 2017, 785),
    Row("India", "IND", 2016, 683),
    Row("India", "IND", 2017, 690) }

JoinYears == {2016, 2017}

(***************************************************************************)
(* The functions applied to their inputs, no cache in between.             *)
(***************************************************************************)
NoRequest == CountriesRequest("", "", 0)

NoProbe ==
  [op |-> "none", start_year |-> 0, end_year |-> 0, countries |-> <<>>,
   request |-> NoRequest, response |-> ShortEnvelope, raised |-> NoExc,
   table |-> <<>>, directory |-> <<>>, df1 |-> <<>>, df2 |-> <<>>, year |-> 0,
   merged |-> <<>>, fig |-> FALSE]

ApplySeries ==
  /\ probe = NoProbe
  /\ \E indicator \in {"SP.DYN.LE00.IN"}, countries \in CountryLists, range \in YearRanges,
     observations \in BoundedSeq(Observations, MaxItems) \cup {LifeExpectancy} :
    LET request == SeriesRequest(indicator, countries, range[1], range[2])
    IN  \E response \in SeriesAnswers(request, observations, Failures) :
          LET r == fetch_world_bank_data(response)
          IN  /\ probe' = [NoProbe EXCEPT !.op = "fetch_world_bank_data",
                          !.start_year = range[1], !.end_year = range[2],
                          !.countries = countries, !.request = request,
                          !.response = response, !.raised = r.raised, !.table = r.value]
              /\ UNCHANGED <<now, stCache, httpCache, lastCall, available_countries, data>>

ApplyAllCountries ==
  /\ probe = NoProbe
  /\ \E listing \in BoundedSeq(Listing, MaxEntries) :
    LET request == CountriesRequest("", "", 300)
    IN  \E response \in CountryAnswers(request, listing, Failures) :
          LET r == fetch_all_countries(response)
          IN  /\ probe' = [NoProbe EXCEPT !.op = "fetch_all_countries", !.request = request,
                          !.response = response, !.raised = r.raised, !.directory = r.value]
              /\ UNCHANGED <<now, stCache, httpCache, lastCall, available_countries, data>>

ApplyByRegion ==
  /\ probe = NoProbe
  /\ \E listing \in BoundedSeq(Listing, MaxEntries), region_code \in {"ECS", "EAS"} :
    LET request == CountriesRequest(region_code, "", 100)
    IN  \E response \in CountryAnswers(request, listing, Failures) :
          LET r == fetch_countries_by_region(response)
          IN  /\ probe' = [NoProbe EXCEPT !.op = "fetch_countries_by_region", !.request = request,
                          !.response = response, !.raised = r.raised, !.directory = r.value]
              /\ UNCHANGED <<now, stCache, httpCache, lastCall, available_countries, data>>

ApplyByIncome ==
  /\ probe = NoProbe
  /\ \E listing \in BoundedSeq(Listing, MaxEntries), income_code \in {"HIC", "UMC"} :
    LET request == CountriesRequest("", income_code, 100)
    IN  \E response \in CountryAnswers(request, listing, Failures) :
          LET r == fetch_countries_by_income(response)
          IN  /\ probe' = [NoProbe EXCEPT !.op = "fetch_countries_by_income", !.request = request,
                          !.response = response, !.raised = r.raised, !.directory = r.value]
              /\ UNCHANGED <<now, stCache, httpCache, lastCall, available_countries, data>>

ApplyJoin ==
  /\ probe = NoProbe
  /\ \E df1 \in BoundedSeq(Rows, MaxRows), df2 \in BoundedSeq(Rows, MaxRows), year \in JoinYears :
    LET r == create_scatter_comparison(df1, df2, year)
    IN  /\ probe' = [NoProbe EXCEPT !.op = "create_scatter_comparison", !.df1 = df1, !.df2 = df2,
                    !.year = year, !.merged = r.merged, !.fig = r.fig]
        /\ UNCHANGED <<now, stCache, httpCache, lastCall, available_countries, data>>

(***************************************************************************)
(* The caches.  st.cache_data(ttl=86400) keeps, per function and           *)
(* arguments, the value returned; requests_cache keeps, per request, the   *)
(* response to it.                                                         *)
(***************************************************************************)
\* The key st.cache_data gives a call: the function and its arguments as passed.
CacheKey(fn, code, indicator_code, countries, start_year, end_year) ==
  [fn |-> fn, code |-> code, indicator |-> indicator_code, countries |-> countries,
   start_year |-> start_year, end_year |-> end_year]

AllCountriesKey == CacheKey("fetch_all_countries", "", "", <<>>, 0, 0)

RegionKey(region_code) == CacheKey("fetch_countries_by_region", region_code, "", <<>>, 0, 0)

IncomeKey(income_code) == CacheKey("fetch_countries_by_income", income_code, "", <<>>, 0, 0)

\* SeriesKey with the country codes put in order first.
CodeOrder == <<"IND", "USA">>

InOrder(countries) == SelectSeq(CodeOrder, LAMBDA c : c \in Range(countries))

SeriesKeySorted(indicator_code, countries, start_year, end_year) ==
  CacheKey("fetch_world_bank_data", "", indicator_code, InOrder(countries), start_year, end_year)

SeriesKey(indicator_code, countries, start_year, end_year) ==
  CacheKey("fetch_world_bank_data", "", indicator_code, countries, start_year, end_year)

\* The selections and arguments of the runs under the caches.
SelectableRegions == {"All Regions", "Europe & Central Asia"}
SelectableIncomes == {"All Income Levels", "High Income"}
Indicators == {"SP.DYN.LE00.IN"}
Selections == {<<"USA", "IND">>, <<"IND", "USA">>}
Periods == {<<2015, 2017>>}

Codes(table, labels) == {DictLookup(table, l) : l \in labels} \ {None}

Keys ==
  {AllCountriesKey}
    \cup {RegionKey(c) : c \in Codes(REGIONS, SelectableRegions)}
    \cup {IncomeKey(c) : c \in Codes(INCOME_GROUPS, SelectableIncomes)}
    \cup {SeriesKey(i, c, r[1], r[2]) : i \in Indicators, c \in Selections, r \in Periods}

Requests ==
  {CountriesRequest("", "", 300)}
    \cup {CountriesRequest(c, "", 100) : c \in Codes(REGIONS, SelectableRegions)}
    \cup {CountriesRequest("", c, 100) : c \in Codes(INCOME_GROUPS, SelectableIncomes)}
    \cup {SeriesRequest(i, c, r[1], r[2]) : i \in Indicators, c \in Selections, r \in Periods}

NoEntry == [present |-> FALSE, value |-> <<>>, expires |-> 0]
NoResponse == [present |-> FALSE, response |-> ShortEnvelope, expires |-> 0]

StLive(key) == stCache[key].present /\ now < stCache[key].expires
StExpired(key) == stCache[key].present /\ now >= stCache[key].expires
HttpLive(request) == httpCache[request].present /\ now < httpCache[request].expires

\* requests_cache keeps the responses of status 200 (its default).
Cacheable(response) == response.exc = NoExc /\ response.status_code = HTTP_OK

\* requests.get(url, ...) with the cache installed: a response kept and not
\* expired is returned as it is; otherwise the upstream is asked, it answers
\* one of answers, and a cacheable answer is kept for HTTP_EXPIRE.
Get(request, answers) ==
  IF HttpLive(request)
  THEN {[response |-> httpCache[request].response, remote |-> FALSE, http |-> httpCache]}
  ELSE {[response |-> a, remote |-> TRUE,
         http |-> IF Cacheable(a)
                  THEN [httpCache EXCEPT ![request] =
                          [present |-> TRUE, response |-> a, expires |-> now + HTTP_EXPIRE]]
                  ELSE httpCache] : a \in answers}

Body(fn, response) ==
  CASE fn = "fetch_all_countries" -> fetch_all_countries(response)
    [] fn = "fetch_countries_by_region" -> fetch_countries_by_region(response)
    [] fn = "fetch_countries_by_income" -> fetch_countries_by_income(response)
    [] fn = "fetch_world_bank_data" -> fetch_world_bank_data(response)

\* The response shows no data element to read: the call failed, was refused,
\* or answered without one.
FetchFailed(response) ==
  \/ response.exc # NoExc
  \/ response.status_code # HTTP_OK
  \/ response.len < 2
  \/ response.isNull

\* CachedCall that keeps no result computed from a failed fetch.
CachedCallSuccessOnly(key, request, answers) ==
  IF StLive(key)
  THEN {[fn |-> key.fn, key |-> key, request |-> request,
         value |-> stCache[key].value, raised |-> NoExc,
         hit |-> TRUE, remote |-> FALSE, failed |-> FALSE,
         st |-> stCache, http |-> httpCache]}
  ELSE {LET r == Body(key.fn, g.response)
        IN  [fn |-> key.fn, key |-> key, request |-> request,
             value |-> r.value, raised |-> r.raised,
             hit |-> FALSE, remote |-> g.remote, failed |-> FetchFailed(g.response),
             st |-> IF r.raised = NoExc /\ ~FetchFailed(g.response)
                    THEN [stCache EXCEPT ![key] =
                            [present |-> TRUE, value |-> r.value, expires |-> now + TTL]]
                    ELSE stCache,
             http |-> g.http] : g \in Get(request, answers)}

\* A call of a function under st.cache_data: the outcomes it can have.  An
\* entry kept and not expired is returned without running the function;
\* otherwise the function runs and what it returns is kept for TTL.
CachedCall(key, request, answers) ==
  IF StLive(key)
  THEN {[fn |-> key.fn, key |-> key, request |-> request,
         value |-> stCache[key].value, raised |-> NoExc,
         hit |-> TRUE, remote |-> FALSE, failed |-> FALSE,
         st |-> stCache, http |-> httpCache]}
  ELSE {LET r == Body(key.fn, g.response)
        IN  [fn |-> key.fn, key |-> key, request |-> request,
             value |-> r.value, raised |-> r.raised,
             hit |-> FALSE, remote |-> g.remote, failed |-> FetchFailed(g.response),
             st |-> IF r.raised = NoExc
                    THEN [stCache EXCEPT ![key] =
                            [present |-> TRUE, value |-> r.value, expires |-> now + TTL]]
                    ELSE stCache,
             http |-> g.http] : g \in Get(request, answers)}

\* What the last call did: the selection (of main), the function called, its
\* cache key and request, the exception it raised, whether the value came from
\* st.cache_data (hit), whether the upstream was contacted (remote), and whether
\* the response the function read showed a failure (failed).
NoCall ==
  [op |-> "none", selected_region |-> "", selected_income |-> "", fn |-> "",
   key |-> AllCountriesKey, request |-> NoRequest, raised |-> NoExc, hit |-> FALSE,
   remote |-> FALSE, failed |-> FALSE]

Called(op, selected_region, selected_income, o) ==
  [op |-> op, selected_region |-> selected_region, selected_income |-> selected_income,
   fn |-> o.fn, key |-> o.key, request |-> o.request, raised |-> o.raised, hit |-> o.hit,
   remote |-> o.remote, failed |-> o.failed]

(***************************************************************************)
(* main, lines 350-358: the directory for the selected region and income   *)
(* group.                                                                  *)
(***************************************************************************)
\* Lookup with the income group looked at before the region.
LookupIncomeFirst(selected_region, selected_income, listing, failures) ==
  LET region_code == DictLookup(REGIONS, selected_region)
      income_code == DictLookup(INCOME_GROUPS, selected_income)
  IN  IF CodeSet(income_code)
      THEN LET request == CountriesRequest("", income_code, 100)
           IN  CachedCall(IncomeKey(income_code), request,
                          CountryAnswers(request, listing, failures))
      ELSE IF CodeSet(region_code)
           THEN LET request == CountriesRequest(region_code, "", 100)
                IN  CachedCall(RegionKey(region_code), request,
                               CountryAnswers(request, listing, failures))
           ELSE LET request == CountriesRequest("", "", 300)
                IN  CachedCall(AllCountriesKey, request,
                               CountryAnswers(request, listing, failures))

\* The lookup main makes, and the outcomes it can have.
Lookup(selected_region, selected_income, listing, failures) ==
  LET region_code == DictLookup(REGIONS, selected_region)
      income_code == DictLookup(INCOME_GROUPS, selected_income)
  IN  IF CodeSet(region_code)
      THEN LET request == CountriesRequest(region_code, "", 100)
           IN  CachedCall(RegionKey(region_code), request,
                          CountryAnswers(request, listing, failures))
      ELSE IF CodeSet(income_code)
           THEN LET request == CountriesRequest("", income_code, 100)
                IN  CachedCall(IncomeKey(income_code), request,
                               CountryAnswers(request, listing, failures))
           ELSE LET request == CountriesRequest("", "", 300)
                IN  CachedCall(AllCountriesKey, request,
                               CountryAnswers(request, listing, failures))

\* OrSample without the fallback of lines 357-358.
OrSampleForgotten(countries) == countries

\* Lines 357-358.
OrSample(countries) == IF NonEmpty(countries) THEN countries ELSE SAMPLE_COUNTRIES

Resolve(selected_region, selected_income, listing, failures) ==
  \E o \in Lookup(selected_region, selected_income, listing, failures) :
    /\ lastCall' = Called("main", selected_region, selected_income, o)
    /\ stCache' = o.st
    /\ httpCache' = o.http
    /\ available_countries' = IF o.raised = NoExc THEN OrSample(o.value) ELSE available_countries
    /\ UNCHANGED <<now, data, probe>>

\* Time passes.
Tick ==
  /\ now + TickStep <= MaxTicks * TickStep
  /\ now' = now + TickStep
  /\ UNCHANGED <<stCache, httpCache, lastCall, available_countries, data, probe>>

(***************************************************************************)
(* The directory resolution under the caches.                              *)
(***************************************************************************)
Listings ==
  { << Entry("East Asia & Pacific", "EAS", "NA", "Aggregates", "NA") >>,
    << Entry("Switzerland", "CHE", "ECS", "Europe & Central Asia", "HIC"),
       Entry("Germany", "DEU", "ECS", "Europe & Central Asia", "HIC") >> }

SomeFailures == {Raises("Timeout"), Status(500), ShortEnvelope}

Init ==
  /\ now = 0
  /\ stCache = [k \in Keys |-> NoEntry]
  /\ httpCache = [r \in Requests |-> NoResponse]
  /\ lastCall = NoCall
  /\ available_countries = <<>>
  /\ data = <<>>
  /\ probe = NoProbe

ResolveAny ==
  \E selected_region \in SelectableRegions, selected_income \in SelectableIncomes,
     listing \in Listings :
    Resolve(selected_region, selected_income, listing, SomeFailures)

Next == Tick \/ ResolveAny

Spec == Init /\ [][Next]_vars

(***************************************************************************)
(* fetch_world_bank_data under the caches (main, lines 396-401).           *)
(***************************************************************************)
FetchSeries(indicator_code, countries, start_year, end_year, observations, failures) ==
  LET request == SeriesRequest(indicator_code, countries, start_year, end_year)
      key == SeriesKey(indicator_code, countries, start_year, end_year)
  IN  \E o \in CachedCall(key, request, SeriesAnswers(request, observations, failures)) :
        /\ lastCall' = Called("fetch_world_bank_data", "", "", o)
        /\ stCache' = o.st
        /\ httpCache' = o.http
        /\ data' = IF o.raised = NoExc THEN o.value ELSE data
        /\ UNCHANGED <<now, available_countries, probe>>

Datasets == {LifeExpectancy, LifeExpectancyRevised}

\* The response cache is a file: it may hold a response of an earlier run,
\* here one that has TickStep left to live.
EarlierResponses ==
  {[r \in Requests |-> NoResponse]}
    \cup {[r \in Requests |->
             IF r = q THEN [present |-> TRUE, response |-> a, expires |-> TickStep]
             ELSE NoResponse] :
           q \in {SeriesRequest(i, <<"USA", "IND">>, p[1], p[2]) : i \in Indicators, p \in Periods},
           a \in {NullData, ItemData(LifeExpectancy)}}

InitSeries ==
  /\ now = 0
  /\ stCache = [k \in Keys |-> NoEntry]
  /\ httpCache \in EarlierResponses
  /\ lastCall = NoCall
  /\ available_countries = <<>>
  /\ data = <<>>
  /\ probe = NoProbe

FetchAny ==
  \E indicator_code \in Indicators, countries \in Selections, period \in Periods,
     observations \in Datasets :
    FetchSeries(indicator_code, countries, period[1], period[2], observations, SomeFailures)

NextSeries == Tick \/ FetchAny

SpecSeries == InitSeries /\ [][NextSeries]_vars

(***************************************************************************)
(* The cached functions side by side: the full listing, one region and     *)
(* one series.                                                             *)
(***************************************************************************)
OneFailure == {Raises("Timeout"), Status(500)}

ResolveSome ==
  \E selected_region \in SelectableRegions, listing \in Listings :
    Resolve(selected_region, "All Income Levels", listing, OneFailure)

FetchSome ==
  \E indicator_code \in Indicators, period \in Periods, observations \in Datasets :
    FetchSeries(indicator_code, <<"USA", "IND">>, period[1], period[2], observations, OneFailure)

NextCache == Tick \/ ResolveSome \/ FetchSome

SpecCache == Init /\ [][NextCache]_vars

(***************************************************************************)
(* The functions on their inputs.                                          *)
(***************************************************************************)
NextFunctions ==
  ApplySeries \/ ApplyAllCountries \/ ApplyByRegion \/ ApplyByIncome \/ ApplyJoin

SpecFunctions == Init /\ [][NextFunctions]_vars

(***************************************************************************)
(* Properties.                                                             *)
(***************************************************************************)
RegionCode == DictLookup(REGIONS, lastCall.selected_region)
IncomeCode == DictLookup(INCOME_GROUPS, lastCall.selected_income)

\* C1: whatever the filter and whatever the upstream does, main ends with a
\* non-empty directory and no exception leaves the lookup; when the fetch
\* under the lookup failed, the directory is SAMPLE_COUNTRIES.
C1_DirectoryNeverEmpty ==
  lastCall.op = "main" =>
    /\ lastCall.raised = NoExc
    /\ available_countries # <<>>
    /\ lastCall.failed => available_countries = SAMPLE_COUNTRIES
    /\ Len(SAMPLE_COUNTRIES) = 20

\* A region lookup whose fetch failed, answered with the sample directory.
C1_Witness ==
  /\ lastCall.op = "main"
  /\ lastCall.fn = "fetch_countries_by_region"
  /\ lastCall.failed
  /\ stCache[lastCall.key].value = <<>>
  /\ available_countries = SAMPLE_COUNTRIES

\* C2: with a region selected, whatever the income group, main calls the
\* region lookup and nothing else: the directory is the one the region's
\* cache entry gives, and no entry or response of another lookup changes.
\* The income lookup is called only with no region selected, the full listing
\* only with neither.
C2_RegionFirst ==
  [][now' = now =>
      LET region_code == DictLookup(REGIONS, lastCall'.selected_region)
          income_code == DictLookup(INCOME_GROUPS, lastCall'.selected_income)
      IN  /\ CodeSet(region_code) =>
               /\ lastCall'.fn = "fetch_countries_by_region"
               /\ lastCall'.key = RegionKey(region_code)
               /\ available_countries' = OrSample(stCache'[RegionKey(region_code)].value)
               /\ \A k \in Keys \ {RegionKey(region_code)} : stCache'[k] = stCache[k]
               /\ \A r \in Requests \ {CountriesRequest(region_code, "", 100)} :
                    httpCache'[r] = httpCache[r]
          /\ lastCall'.fn = "fetch_countries_by_income" =>
               ~CodeSet(region_code) /\ CodeSet(income_code)
          /\ lastCall'.fn = "fetch_all_countries" =>
               ~CodeSet(region_code) /\ ~CodeSet(income_code)]_vars

\* Region and income group both selected: the region's countries, as listed.
C2_Witness ==
  /\ lastCall.op = "main"
  /\ CodeSet(RegionCode) /\ CodeSet(IncomeCode)
  /\ lastCall.fn = "fetch_countries_by_region"
  /\ lastCall.remote
  /\ ~stCache[IncomeKey(IncomeCode)].present
  /\ available_countries = << <<"Switzerland", "CHE">>, <<"Germany", "DEU">> >>

\* What a response to a series request must be to count as well-formed:
\* status 200, both elements there, and every item with its four fields, a
\* year for a date and a number (or null) for a value.
ReadableItem(item) ==
  /\ item.keys = {"country", "countryiso3code", "date", "value"}
  /\ int(item.date).exc = NoExc
  /\ item.value.kind # "null" => float(item.value).exc = NoExc

WellFormed(response) ==
  /\ ~FetchFailed(response)
  /\ \A i \in 1..Len(response.items) : ReadableItem(response.items[i])

HasValue(item) == "value" \in item.keys /\ item.value.kind # "null"

\* The record fetch_world_bank_data should build of an item.
RecordOf(item) ==
  [country |-> item.country, country_code |-> item.countryiso3code,
   year |-> int(item.date).val, value |-> float(item.value).val]

\* C3: fetch_world_bank_data raises nothing, and returns the empty table when
\* the call raised or timed out, the status is not 200, the envelope has
\* fewer than two elements, or the data element is null or an empty list.
C3_SeriesNeverRaises ==
  probe.op = "fetch_world_bank_data" =>
    /\ probe.raised = NoExc
    /\ (FetchFailed(probe.response) \/ probe.response.items = <<>>) => probe.table = <<>>

\* A timed-out request, answered with the empty table.
C3_Witness ==
  /\ probe.op = "fetch_world_bank_data"
  /\ probe.response.exc = "Timeout"
  /\ probe.raised = NoExc
  /\ probe.table = <<>>

Unreadable(item) ==
  \/ "value" \notin item.keys
  \/ /\ item.value.kind # "null"
     /\ \/ ~({"country", "countryiso3code", "date"} \subseteq item.keys)
        \/ int(item.date).exc # NoExc
        \/ float(item.value).exc # NoExc

Readable(item) == HasValue(item) /\ ~Unreadable(item)

Holds(table, item) == \E i \in 1..Len(table) : table[i] = RecordOf(item)

\* C5 as claimed: an item that cannot be parsed is skipped, and every
\* well-formed item with a value of the same batch is in the table.
C5_ItemFailureIsLocal ==
  (probe.op = "fetch_world_bank_data" /\ ~FetchFailed(probe.response)) =>
    \A i \in 1..Len(probe.response.items) :
      Readable(probe.response.items[i]) => Holds(probe.table, probe.response.items[i])

\* C5 as amended: an item that cannot be parsed empties the table: the
\* function raises nothing and returns no record of the batch.  Only a batch
\* without such an item is returned, every item with a value in it.
C5_ItemFailureEmptiesTable ==
  (probe.op = "fetch_world_bank_data" /\ ~FetchFailed(probe.response)) =>
    /\ probe.raised = NoExc
    /\ IF \E i \in 1..Len(probe.response.items) : Unreadable(probe.response.items[i])
       THEN probe.table = <<>>
       ELSE \A i \in 1..Len(probe.response.items) :
              HasValue(probe.response.items[i]) =>
                Holds(probe.table, probe.response.items[i])

\* A batch of a well-formed item and one whose date is no year: nothing is returned.
C5_Witness ==
  /\ probe.op = "fetch_world_bank_data"
  /\ ~FetchFailed(probe.response)
  /\ \E i, j \in 1..Len(probe.response.items) :
       /\ Readable(probe.response.items[i])
       /\ Unreadable(probe.response.items[j])
       /\ int(probe.response.items[j].date).exc = "ValueError"
  /\ probe.table = <<>>

CountriesAt(df, year) == {df[i].country : i \in {j \in 1..Len(df) : df[j].year = year}}

\* C8: the countries of the join of df1 and df2 at a year are those with a
\* record at that year in both, matched by name; every joined entry has its
\* x from df1 and its y from df2, every such pair is joined; and the join is
\* empty, with no figure and no error, when a table is empty or no country
\* is in both at that year.
C8_JoinIsIntersection ==
  probe.op = "create_scatter_comparison" =>
    LET A == probe.df1
        B == probe.df2
        Y == probe.year
        M == probe.merged
        both == CountriesAt(A, Y) \cap CountriesAt(B, Y)
    IN  /\ {M[i].country : i \in 1..Len(M)} = both
        /\ \A i \in 1..Len(M) :
             /\ \E a \in Range(A) : a.year = Y /\ a.country = M[i].country /\ a.value = M[i].x
             /\ \E b \in Range(B) : b.year = Y /\ b.country = M[i].country /\ b.value = M[i].y
        /\ \A a \in Range(A), b \in Range(B) :
             (a.year = Y /\ b.year = Y /\ a.country = b.country) =>
               \E i \in 1..Len(M) : M[i] = [country |-> a.country, x |-> a.value, y |-> b.value]
        /\ (A = <<>> \/ B = <<>> \/ both = {}) => (M = <<>> /\ ~probe.fig)
        /\ probe.fig <=> M # <<>>

\* Life expectancy of the United States and India joined with a GDP table
\* that has the United States only: one entry.
C8_Witness ==
  /\ probe.op = "create_scatter_comparison"
  /\ probe.year = 2016
  /\ probe.df1 = << Row("United States", "USA", 2016, 788), Row("India", "IND", 2016, 683) >>
  /\ probe.df2 = << Row("United States", "USA", 2016, 570000) >>
  /\ probe.merged = << [country |-> "United States", x |-> 788, y |-> 570000] >>

\* C9 as claimed: the directory each of the three lookups builds of a country
\* list has no aggregate in it and is in the order of the names.
C9_ListsFilteredAndSorted ==
  (/\ probe.op \in {"fetch_all_countries", "fetch_countries_by_region",
                    "fetch_countries_by_income"}
   /\ ~FetchFailed(probe.response)
   /\ \A i \in 1..Len(probe.response.entries) :
        {"name", "id"} \subseteq probe.response.entries[i].keys) =>
    /\ \A i \in 1..Len(probe.response.entries) :
         probe.response.entries[i].region = "Aggregates" =>
           probe.response.entries[i].name \notin DictKeys(probe.directory)
    /\ IsSortedByName(probe.directory)

\* The entry a call at this moment leaves under its key.
Fresh(value) == [present |-> TRUE, value |-> value, expires |-> now + TTL]

\* The key of the arguments as they were passed: the request carries them.
PassedKey(request) ==
  CacheKey("fetch_world_bank_data", "", request.indicator, request.country_codes,
           request.date[1], request.date[2])

SamePermuted(a, b) == Len(a) = Len(b) /\ Range(a) = Range(b)

\* C6: a call of fetch_world_bank_data with parameters whose entry is within
\* its TTL returns the table of that entry with no remote call and leaves
\* the caches as they are; a call after the entry has expired contacts the
\* upstream again; every call that finds no live entry stores what it
\* returns, to live for TTL from now.
C6_IdempotentWithinTTL ==
  [][(now' = now /\ lastCall'.op = "fetch_world_bank_data") =>
       LET k == lastCall'.key
       IN  /\ StLive(k) =>
                /\ data' = stCache[k].value
                /\ lastCall'.hit /\ ~lastCall'.remote
                /\ stCache' = stCache /\ httpCache' = httpCache
           /\ StExpired(k) => lastCall'.remote
           /\ ~StLive(k) => (~lastCall'.hit /\ stCache'[k] = Fresh(data'))]_vars

\* A second call, half a day after the first, served the five records the
\* first one stored.
C6_Witness ==
  /\ lastCall.op = "fetch_world_bank_data"
  /\ lastCall.hit /\ ~lastCall.remote
  /\ now > 0
  /\ stCache[lastCall.key].expires = TTL
  /\ Len(data) = 5
  /\ data = stCache[lastCall.key].value

\* C7 as claimed: a call whose country list is a permutation of the list of
\* a live entry with the same indicator and years is a hit, with no remote
\* call.
C7_PermutationsShareEntry ==
  [][(now' = now /\ lastCall'.op = "fetch_world_bank_data") =>
       \A k \in Keys :
         (/\ k.fn = "fetch_world_bank_data"
          /\ k.indicator = lastCall'.request.indicator
          /\ <<k.start_year, k.end_year>> = lastCall'.request.date
          /\ SamePermuted(k.countries, lastCall'.request.country_codes)
          /\ StLive(k)) =>
           (lastCall'.hit /\ ~lastCall'.remote)]_vars

\* C7 as amended: the key holds the country codes in the order passed.  A
\* call is a hit exactly when the entry of its own order is live; with only
\* the entry of another order live it is a miss that stores an entry of its
\* own, leaves the other as it is, and asks the upstream unless the response
\* cache holds its own URL.
C7_KeyKeepsOrder ==
  [][(now' = now /\ lastCall'.op = "fetch_world_bank_data") =>
       LET passed == PassedKey(lastCall'.request)
       IN  /\ lastCall'.key = passed
           /\ lastCall'.hit <=> StLive(passed)
           /\ \A k \in Keys \ {passed} :
                (/\ k.fn = "fetch_world_bank_data"
                 /\ SamePermuted(k.countries, passed.countries)
                 /\ StLive(k) /\ ~StLive(passed)) =>
                  /\ ~lastCall'.hit
                  /\ stCache'[passed] = Fresh(data')
                  /\ stCache'[k] = stCache[k]
                  /\ ~HttpLive(lastCall'.request) => lastCall'.remote]_vars

\* (USA, IND) fetched, then (IND, USA) at the same moment: a miss, a remote
\* call, and two entries.
C7_Witness ==
  /\ lastCall.op = "fetch_world_bank_data"
  /\ lastCall.request.country_codes = <<"IND", "USA">>
  /\ ~lastCall.hit /\ lastCall.remote
  /\ now = 0
  /\ \E i \in Indicators, p \in Periods :
       /\ lastCall.key = SeriesKey(i, <<"IND", "USA">>, p[1], p[2])
       /\ stCache[SeriesKey(i, <<"USA", "IND">>, p[1], p[2])].present
       /\ stCache[SeriesKey(i, <<"IND", "USA">>, p[1], p[2])].present

\* What a function returns of a failed fetch.
Degraded(fn) == IF fn = "fetch_all_countries" THEN SAMPLE_COUNTRIES ELSE <<>>

\* C10: the result of a failed fetch (the empty table, the empty mapping,
\* the sample directory) is stored like any other, to live for TTL; a call
\* that finds a live entry returns it without contacting the upstream and
\* leaves the caches as they are, whatever the upstream would answer now; the
\* upstream is contacted only by a call that finds no live entry.
C10_DegradedResultCached ==
  [][(now' = now /\ lastCall'.op # "none") =>
       LET k == lastCall'.key
       IN  /\ StLive(k) =>
                /\ lastCall'.hit /\ ~lastCall'.remote
                /\ stCache' = stCache /\ httpCache' = httpCache
                /\ lastCall'.op = "fetch_world_bank_data" => data' = stCache[k].value
                /\ lastCall'.op = "main" =>
                     available_countries' = OrSample(stCache[k].value)
           /\ lastCall'.remote => ~StLive(k)
           /\ (~StLive(k) /\ lastCall'.failed) => stCache'[k] = Fresh(Degraded(k.fn))]_vars

\* The empty table of a failed fetch, served again half a day later.
C10_Witness ==
  /\ lastCall.op = "fetch_world_bank_data"
  /\ lastCall.hit /\ ~lastCall.remote
  /\ now > 0
  /\ stCache[lastCall.key].expires = TTL
  /\ stCache[lastCall.key].value = <<>>
  /\ data = <<>>

====
